---- MODULE Spec2Model ----
(***************************************************************************)
(* A model of the phase drivers of Spyral:                                 *)
(*   - phase_solve / phase_4_interp  (src/spyral/phase_solve.py,           *)
(*                                    src/spyral/phase_4_interp.py)        *)
(*   - phase_2                       (src/pcutils/phase_2.py)              *)
(*   - phase_pointcloud              (src/spyral/phase_pointcloud.py)      *)
(* Each driver is a sequential function; its position is a pc variable and *)
(* every action is one step of the function body.  Files, HDF5 groups and  *)
(* the progress queue are the environment: what the driver finds there is  *)
(* drawn with \E at the step that reads it and kept in the state.          *)
(***************************************************************************)
EXTENDS Integers, Sequences, FiniteSets, TLC

(***************************************************************************)
(* Bounds of the model                                                     *)
(***************************************************************************)
\* event identifiers that occur in the estimate table are 1..MaxEvent
MaxEvent == 3
\* the estimate table holds at most MaxRows rows
MaxRows == 3
\* points of a cloud lie at the positions 1..MaxPos
MaxPos == 5
\* phase_2 and phase_pointcloud run over event ranges within 1..MaxIndex
MaxIndex == 2
\* cluster_params.min_write_size is drawn from 0..MaxWriteSize
MaxWriteSize == 1
\* an ion-chamber trace holds the peaks 1..MaxPeaks
MaxPeaks == 2
\* ion-chamber multiplicities are 1..MaxMult
MaxMult == 2

(***************************************************************************)
(* Configuration of the solver gate (SolverParameters)                     *)
(***************************************************************************)
ic_min_val == 0
ic_max_val == 2

(***************************************************************************)
(* State                                                                   *)
(***************************************************************************)
VARIABLES
    variant,          \* which driver runs: "phase_solve" or "phase_4_interp"
    sink,             \* condition of the parent's end of the SimpleQueue
    sent,             \* StatusMessages delivered to the queue, in order
    log,              \* records written through spyral_warn/error/info
    pc,               \* position of the solve driver
    failure,          \* the exception that ended the driver, "none" otherwise
    skip,             \* the early return the driver took, "none" otherwise
    pid,              \* result of deserialize_particle_id / load_particle_id
    target,           \* result of load_target
    paths,            \* existence of cluster_path and estimate_path
    cluster_group,    \* what cluster_file holds under "cluster"
    estimate_df,      \* rows of the estimate table
    estimates_gated,  \* rows after filter / sort / unique
    flush_percent,    \* <<numerator, denominator>>
    flush_val,
    count,
    row,              \* number of rows of estimates_gated already visited
    interpolator,     \* identity of the interpolator object, 0 if none
    interpLoads,      \* number of create_interpolator calls
    calls,            \* arguments of every solve_physics_interp call
    results,          \* the results dictionary, as a sequence of rows
    result_file,      \* rows written to result_path, or NoFile
    \* ---- phase_2
    p2_pc,            \* position of phase_2
    p2_range,         \* <<min_event, max_event>>
    min_write_size,   \* cluster_params.min_write_size
    p2_idx,           \* the loop variable idx
    p2_count,         \* <<count, flush_count>>
    cloud_group,      \* what point_file holds under cloud_<idx>, once read
    clusterized,      \* the events clusterize was invoked for
    cluster_file,     \* event_<idx> groups created under "cluster"
    \* ---- phase_pointcloud
    p1_pc,            \* position of phase_pointcloud
    p1_failure,       \* the exception that ended phase_pointcloud, or "none"
    trace_file,       \* existence of trace_path
    p1_range,         \* <<min_event, max_event>>
    corrector,        \* the ElectronCorrector, or "None"
    correct_ic_time,  \* frib_params.correct_ic_time
    event_group,      \* what trace_file holds under "get"
    frib_group,       \* what trace_file holds under "frib"
    frib_evt_group,   \* what frib_group holds under "evt"
    scaler_entry,     \* what frib_group holds under "scaler"
    frib_scaler_group,\* the local frib_scaler_group
    p1_idx,           \* the loop variable idx
    p1_count,         \* the local count
    get_data,         \* for each visited idx, whether evt<idx>_data exists
    datasets,         \* the cloud_<idx> datasets created in cloud_group
    scalers_processed \* number of process_scalers calls

queueVars == <<sink, sent, log>>

solveVars == <<variant, pc, failure, skip, pid, target, paths,
               cluster_group, estimate_df, estimates_gated, flush_percent,
               flush_val, count, row, interpolator, interpLoads, calls,
               results, result_file>>

phase2Vars == <<p2_pc, p2_range, min_write_size, p2_idx, p2_count,
                cloud_group, clusterized, cluster_file>>

cloudVars == <<p1_pc, p1_failure, trace_file, p1_range, corrector,
               correct_ic_time, event_group, frib_group, frib_evt_group,
               scaler_entry, frib_scaler_group, p1_idx, p1_count, get_data,
               datasets, scalers_processed>>

vars == <<queueVars, solveVars, phase2Vars, cloudVars>>

NoFile == <<"no file">>

(***************************************************************************)
(* The progress queue (multiprocessing.SimpleQueue).  put() is a blocking  *)
(* write to a pipe: it returns when the bytes are written, blocks while    *)
(* the pipe is full and nobody reads, and raises when the read end is gone.*)
(***************************************************************************)
SinkConditions == {"available", "stalled", "closed"}

SinkOutcomes == IF sink = "unobserved" THEN SinkConditions ELSE {sink}

StatusMessage(phase, progress) == [phase |-> phase, progress |-> progress]

\* where the driver is after queue.put() met sink condition s
AfterPut(s, next) ==
    IF s = "available" THEN next
    ELSE IF s = "closed" THEN "failed"
    ELSE "blocked"

\* the exception recorded after queue.put() met sink condition s
PutFailure(s) == IF s = "closed" THEN "BrokenPipeError" ELSE failure

(***************************************************************************)
(* The estimate table and the gate                                         *)
(***************************************************************************)
\* Rows of the estimate table.  inside is the verdict of
\* pid.cut.is_cols_inside on the row's dEdx and brho.  Every row that passes
\* the gate occurs; of the rows that fail it, the ones that fail exactly one
\* of its tests and would come first in the sort of their event occur.
RowDomain ==
    {r \in [event : 1..MaxEvent, cluster_index : 0..1, polar : 1..2,
            inside : BOOLEAN, ic_amplitude : 1..2] :
        \/ r.inside /\ r.ic_amplitude = 1
        \/ /\ r.cluster_index = 0
           /\ r.polar = 2
           /\ r.inside \/ r.ic_amplitude = 1}

RECURSIVE TablesUpTo(_)
TablesUpTo(k) ==
    IF k = 0 THEN {{}}
    ELSE LET T == TablesUpTo(k - 1)
         IN  T \cup {t \cup {r} : t \in T, r \in RowDomain}

\* every ordering of the elements of the finite set S
PermSeqs(S) ==
    {f \in [1..Cardinality(S) -> S] : \A i, j \in 1..Cardinality(S) :
                                          i # j => f[i] # f[j]}

\* estimate_df.filter(pid cut & ic_min_val < ic_amplitude < ic_max_val)
Filtered(df) ==
    {r \in df : /\ r.inside
                /\ r.ic_amplitude > ic_min_val
                /\ r.ic_amplitude < ic_max_val}

\* .sort("polar", descending=True): equal keys may come in either order
SortedDesc(S) ==
    {s \in PermSeqs(S) : \A i, j \in 1..Len(s) :
                             i < j => s[i].polar >= s[j].polar}

\* a unique() that keeps the last row of each event instead of the first
KeepLast(s) ==
    LET kept[i \in 0..Len(s)] ==
            IF i = 0 THEN <<>>
            ELSE IF \E j \in (i + 1)..Len(s) : s[j].event = s[i].event
                 THEN kept[i - 1]
                 ELSE Append(kept[i - 1], s[i])
    IN  kept[Len(s)]

\* .unique("event", keep="first"): the first row of each event survives.
\* The surviving rows are kept in the order of the sorted frame.
KeepFirst(s) ==
    LET kept[i \in 0..Len(s)] ==
            IF i = 0 THEN <<>>
            ELSE IF \E j \in 1..(i - 1) : s[j].event = s[i].event
                 THEN kept[i - 1]
                 ELSE Append(kept[i - 1], s[i])
    IN  kept[Len(s)]

\* the possible values of estimates_gated
GateOutputs(df) == {KeepFirst(s) : s \in SortedDesc(Filtered(df))}

(***************************************************************************)
(* The cluster file, as phase 2 left it                                    *)
(***************************************************************************)
\* the label attribute stored under event_<e>/cluster_<c>
StoredLabel(e, c) == 10 * e + c

Cluster(event, label) == [event |-> event, label |-> label]

Guess(r) == [polar |-> r.polar]

(***************************************************************************)
(* solve_physics_interp: appends one row to results when the fit converges *)
(* and leaves results alone when it does not.                              *)
(***************************************************************************)
solve_physics_interp(cidx, cluster, guess, converged, res) ==
    IF converged
    THEN Append(res, [event |-> cluster.event, cluster_index |-> cidx,
                      cluster_label |-> cluster.label, polar |-> guess.polar])
    ELSE res

(***************************************************************************)
(* Drivers that do not run in a specification stay in their idle state     *)
(***************************************************************************)
Phase2Idle ==
    /\ p2_pc = "idle"
    /\ p2_range = <<1, 0>>
    /\ min_write_size = 0
    /\ p2_idx = 0
    /\ p2_count = <<0, 0>>
    /\ cloud_group = <<>>
    /\ clusterized = {}
    /\ cluster_file = <<>>

SolveIdle ==
    /\ variant = "none"
    /\ pc = "idle"
    /\ failure = "none"
    /\ skip = "none"
    /\ pid = "unread"
    /\ target = "unread"
    /\ paths = "unread"
    /\ cluster_group = "unread"
    /\ estimate_df = {}
    /\ estimates_gated = <<>>
    /\ flush_percent = <<1, 100>>
    /\ flush_val = 0
    /\ count = 0
    /\ row = 0
    /\ interpolator = 0
    /\ interpLoads = 0
    /\ calls = <<>>
    /\ results = <<>>
    /\ result_file = NoFile

CloudIdle ==
    /\ p1_pc = "idle"
    /\ p1_failure = "none"
    /\ trace_file = "unread"
    /\ p1_range = <<1, 0>>
    /\ corrector = "None"
    /\ correct_ic_time = FALSE
    /\ event_group = "unread"
    /\ frib_group = "unread"
    /\ frib_evt_group = "unread"
    /\ scaler_entry = "unread"
    /\ frib_scaler_group = "unset"
    /\ p1_idx = 0
    /\ p1_count = 0
    /\ get_data = <<>>
    /\ datasets = <<>>
    /\ scalers_processed = 0

QueueIdle ==
    /\ sink = "unobserved"
    /\ sent = <<>>
    /\ log = {}

(***************************************************************************)
(* phase_solve / phase_4_interp                                            *)
(***************************************************************************)
WaitProgress == IF variant = "phase_solve" THEN 0 ELSE 100

\* an early return that sends the WAIT message and logs nothing
SkipRunSilent(reason) ==
    \E s \in SinkOutcomes :
        /\ sink' = s
        /\ sent' = IF s = "available"
                   THEN Append(sent, StatusMessage("WAIT", WaitProgress))
                   ELSE sent
        /\ log' = log
        /\ pc' = AfterPut(s, "returned")
        /\ failure' = PutFailure(s)
        /\ skip' = reason

\* queue.put(StatusMessage(run, Phase.WAIT, ...)); spyral_warn(...); return
SkipRun(reason) ==
    \E s \in SinkOutcomes :
        /\ sink' = s
        /\ sent' = IF s = "available"
                   THEN Append(sent, StatusMessage("WAIT", WaitProgress))
                   ELSE sent
        /\ log' = IF s = "available" /\ variant = "phase_solve"
                  THEN log \cup {[level |-> "warn", reason |-> reason]}
                  ELSE log
        /\ pc' = AfterPut(s, "returned")
        /\ failure' = PutFailure(s)
        /\ skip' = reason

SolveInit ==
    /\ variant \in {"phase_solve", "phase_4_interp"}
    /\ sink = "unobserved"
    /\ sent = <<>>
    /\ log = {}
    /\ pc = "load_pid"
    /\ failure = "none"
    /\ skip = "none"
    /\ pid = "unread"
    /\ target = "unread"
    /\ paths = "unread"
    /\ cluster_group = "unread"
    /\ estimate_df = {}
    /\ estimates_gated = <<>>
    /\ flush_percent = <<1, 100>>
    /\ flush_val = 0
    /\ count = 0
    /\ row = 0
    /\ interpolator = 0
    /\ interpLoads = 0
    /\ calls = <<>>
    /\ results = <<>>
    /\ result_file = NoFile
    /\ Phase2Idle
    /\ CloudIdle

LoadPid ==
    /\ pc = "load_pid"
    /\ \E p \in {"none", "ok"} :
        /\ pid' = p
        /\ IF p = "none"
           THEN SkipRun("no particle id")
           ELSE /\ pc' = IF variant = "phase_solve" THEN "load_target"
                                                    ELSE "check_paths"
                /\ UNCHANGED <<sink, sent, log, failure, skip>>
    /\ UNCHANGED <<variant, target, paths, cluster_group, estimate_df,
                   estimates_gated, flush_percent, flush_val, count, row,
                   interpolator, interpLoads, calls, results, result_file>>
    /\ UNCHANGED <<phase2Vars, cloudVars>>

LoadTarget ==
    /\ pc = "load_target"
    /\ \E t \in {"gas", "other"} :
        /\ target' = t
        /\ IF t # "gas"
           THEN SkipRun("target not gas")
           ELSE /\ pc' = "check_paths"
                /\ UNCHANGED <<sink, sent, log, failure, skip>>
    /\ UNCHANGED <<variant, pid, paths, cluster_group, estimate_df,
                   estimates_gated, flush_percent, flush_val, count, row,
                   interpolator, interpLoads, calls, results, result_file>>
    /\ UNCHANGED <<phase2Vars, cloudVars>>

CheckPaths ==
    /\ pc = "check_paths"
    /\ \E p \in {"both", "no cluster file", "no estimate file"} :
        /\ paths' = p
        /\ IF p # "both"
           THEN SkipRun("files missing")
           ELSE /\ pc' = "open_cluster"
                /\ UNCHANGED <<sink, sent, log, failure, skip>>
    /\ UNCHANGED <<variant, pid, target, cluster_group, estimate_df,
                   estimates_gated, flush_percent, flush_val, count, row,
                   interpolator, interpLoads, calls, results, result_file>>
    /\ UNCHANGED <<phase2Vars, cloudVars>>

\* phase_solve: cluster_file["cluster"] raises KeyError for a missing key and
\* the isinstance test rejects anything that is not a group.
\* phase_4_interp: cluster_file.get('cluster') yields None for a missing key
\* and nothing is tested.
OpenCluster ==
    /\ pc = "open_cluster"
    /\ \E g \in {"group", "absent", "dataset"} :
        /\ cluster_group' = g
        /\ IF variant = "phase_solve"
           THEN CASE g = "absent" ->
                       /\ pc' = "failed"
                       /\ failure' = "KeyError cluster group"
                       /\ skip' = skip
                       /\ log' = log
                  [] g = "dataset" ->
                       /\ pc' = "returned"
                       /\ skip' = "no cluster group"
                       /\ failure' = failure
                       /\ log' = log \cup {[level |-> "error",
                                            reason |-> "no cluster group"]}
                  [] OTHER ->
                       /\ pc' = "gate"
                       /\ failure' = failure
                       /\ skip' = skip
                       /\ log' = log
           ELSE /\ pc' = "gate"
                /\ failure' = failure
                /\ skip' = skip
                /\ log' = log
    /\ UNCHANGED <<variant, sink, sent, pid, target, paths, estimate_df,
                   estimates_gated, flush_percent, flush_val, count, row,
                   interpolator, interpLoads, calls, results, result_file>>
    /\ UNCHANGED <<phase2Vars, cloudVars>>

\* int(0.01 * n): the product truncated towards zero
FlushVal(n) == IF n >= 0 THEN n \div 100 ELSE -((-n) \div 100)

Gate ==
    /\ pc = "gate"
    /\ \E df \in TablesUpTo(MaxRows) : \E g \in GateOutputs(df) :
        /\ estimate_df' = df
        /\ estimates_gated' = g
        /\ IF Len(g) = 0
           THEN /\ SkipRun("no events within PID")
                /\ UNCHANGED <<flush_percent, flush_val>>
           ELSE /\ IF variant = "phase_solve" /\ Len(g) < 100
                   THEN /\ flush_percent' = <<100, Len(g)>>
                        /\ flush_val' = 1
                   ELSE /\ flush_percent' = <<1, 100>>
                        /\ flush_val' = FlushVal(Len(g))
                /\ pc' = "create_interpolator"
                /\ UNCHANGED <<sink, sent, log, failure, skip>>
    /\ UNCHANGED <<variant, pid, target, paths, cluster_group, count, row,
                   interpolator, interpLoads, calls, results, result_file>>
    /\ UNCHANGED <<phase2Vars, cloudVars>>

\* a create_interpolator step whose failure is swallowed: the loop still runs
CreateInterpolatorSwallow ==
    /\ pc = "create_interpolator"
    /\ \E loaded \in BOOLEAN :
        /\ interpLoads' = interpLoads + 1
        /\ interpolator' = IF loaded THEN interpLoads + 1 ELSE interpolator
        /\ pc' = "loop"
        /\ failure' = IF loaded THEN failure ELSE "interpolator"
    /\ UNCHANGED <<variant, sink, sent, log, skip, pid, target, paths,
                   cluster_group, estimate_df, estimates_gated, flush_percent,
                   flush_val, count, row, calls, results, result_file>>
    /\ UNCHANGED <<phase2Vars, cloudVars>>

\* create_interpolator(interp_path): returns the interpolator or raises
CreateInterpolator ==
    /\ pc = "create_interpolator"
    /\ \E loaded \in BOOLEAN :
        IF loaded
        THEN /\ interpLoads' = interpLoads + 1
             /\ interpolator' = interpLoads + 1
             /\ pc' = "loop"
             /\ failure' = failure
        ELSE /\ interpLoads' = interpLoads + 1
             /\ interpolator' = interpolator
             /\ pc' = "failed"
             /\ failure' = "interpolator"
    /\ UNCHANGED <<variant, sink, sent, log, skip, pid, target, paths,
                   cluster_group, estimate_df, estimates_gated, flush_percent,
                   flush_val, count, row, calls, results, result_file>>
    /\ UNCHANGED <<phase2Vars, cloudVars>>

\* int(flush_percent * 100.0) in phase_solve, the literal 1 in phase_4_interp
SolveProgress ==
    IF variant = "phase_solve"
    THEN (flush_percent[1] * 100) \div flush_percent[2]
    ELSE 1

\* what cluster_group[f"event_{event}"][f"cluster_{cidx}"] can meet
Lookups ==
    IF cluster_group = "group"
    THEN {"found", "KeyError event", "KeyError cluster"}
    ELSE {"TypeError"}

\* the row of estimates_gated the loop body reads its fields from
RowAt(r) == estimates_gated[r + 1]

\* one iteration of the loop over estimates_gated
SolveRow ==
    /\ pc = "loop"
    /\ row < Len(estimates_gated)
    /\ \E s \in (IF count > flush_val THEN SinkOutcomes ELSE {sink}) :
        /\ sink' = s
        /\ IF count > flush_val /\ s # "available"
           THEN /\ pc' = AfterPut(s, "loop")
                /\ failure' = PutFailure(s)
                /\ UNCHANGED <<sent, count, row, calls, results>>
           ELSE /\ sent' = IF count > flush_val
                           THEN Append(sent,
                                       StatusMessage("SOLVE", SolveProgress))
                           ELSE sent
                /\ count' = (IF count > flush_val THEN 0 ELSE count) + 1
                /\ \E found \in Lookups :
                    IF found # "found"
                    THEN /\ pc' = "failed"
                         /\ failure' = found
                         /\ UNCHANGED <<row, calls, results>>
                    ELSE LET event == estimates_gated[row + 1].event
                             cidx == RowAt(row).cluster_index
                             cluster == Cluster(event,
                                                StoredLabel(event, cidx))
                             guess == Guess(RowAt(row))
                         IN  \E converged \in BOOLEAN :
                               /\ calls' = Append(calls,
                                     [cidx |-> cidx, cluster |-> cluster,
                                      guess |-> guess,
                                      interpolator |-> interpolator,
                                      row |-> row])
                               /\ results' = solve_physics_interp(
                                     cidx, cluster, guess, converged, results)
                               /\ row' = row + 1
                               /\ pc' = "loop"
                               /\ failure' = failure
    /\ UNCHANGED <<variant, log, skip, pid, target, paths, cluster_group,
                   estimate_df, estimates_gated, flush_percent, flush_val,
                   interpolator, interpLoads, result_file>>
    /\ UNCHANGED <<phase2Vars, cloudVars>>

\* physics_df.write_parquet(result_path)
WriteResults ==
    /\ pc = "loop"
    /\ row = Len(estimates_gated)
    /\ result_file' = results
    /\ log' = IF variant = "phase_solve"
              THEN log \cup {[level |-> "info", reason |-> "complete"]}
              ELSE log
    /\ pc' = "done"
    /\ UNCHANGED <<variant, sink, sent, failure, skip, pid, target, paths,
                   cluster_group, estimate_df, estimates_gated, flush_percent,
                   flush_val, count, row, interpolator, interpLoads, calls,
                   results>>
    /\ UNCHANGED <<phase2Vars, cloudVars>>

SolveNext ==
    \/ LoadPid
    \/ LoadTarget
    \/ CheckPaths
    \/ OpenCluster
    \/ Gate
    \/ CreateInterpolator
    \/ SolveRow
    \/ WriteResults

SpecSolve == SolveInit /\ [][SolveNext]_vars

(***************************************************************************)
(* The clustering pipeline called by phase_2.  A cloud is the set of the   *)
(* positions of its points; a cluster is a label and a subset of them.     *)
(***************************************************************************)
\* clusters closer than JoinGap are fragments of one track
JoinGap == 2
\* clusters with fewer points than MinClusterSize are discarded
MinClusterSize == 2

SetMin(S) == CHOOSE x \in S : \A y \in S : x <= y

SetMax(S) == CHOOSE x \in S : \A y \in S : x >= y

RECURSIVE Ascending(_)
Ascending(S) ==
    IF S = {} THEN <<>>
    ELSE <<SetMin(S)>> \o Ascending(S \ {SetMin(S)})

\* the points reachable from p through neighbouring positions
RunFrom(cloud, p) ==
    {q \in cloud : q >= p /\ \A k \in p..q : k \in cloud}

\* proximity grouping: one cluster per maximal run of neighbouring points,
\* labelled in the order of discovery
clusterize(cloud) ==
    LET starts == Ascending({p \in cloud : (p - 1) \notin cloud})
    IN  [i \in 1..Len(starts) |->
            [label |-> i - 1, points |-> RunFrom(cloud, starts[i])]]

RECURSIVE JoinInto(_, _)
JoinInto(joined, rest) ==
    IF rest = <<>> THEN joined
    ELSE LET c == Head(rest)
             n == Len(joined)
         IN  IF n > 0 /\ SetMin(c.points) - SetMax(joined[n].points) <= JoinGap
             THEN JoinInto([joined EXCEPT ![n].points = @ \cup c.points],
                           Tail(rest))
             ELSE JoinInto(Append(joined, c), Tail(rest))

\* merges, transitively, the clusters separated by at most JoinGap
join_clusters(clusters) == JoinInto(<<>>, clusters)

BigEnough(c) == Cardinality(c.points) >= MinClusterSize

\* discards the clusters below the minimum point count
cleanup_clusters(clusters) == SelectSeq(clusters, BigEnough)

(***************************************************************************)
(* phase_2                                                                 *)
(***************************************************************************)
\* the clouds a dataset can hold: the pipeline looks at distances between
\* points only, so a cloud that is not empty has its first point at 1
Clouds == {c \in SUBSET (1..MaxPos) : c = {} \/ 1 \in c}

\* what cloud_group.get(f'cloud_{idx}') can do
CloudLookups ==
    {[kind |-> "None", points |-> {}], [kind |-> "raise", points |-> {}]}
        \cup {[kind |-> "data", points |-> c] : c \in Clouds}

\* a size test that also rejects clouds of exactly min_write_size points
TooSmallOrEqual(cloud) == Cardinality(cloud) <= min_write_size

\* len(cloud.cloud) < cluster_params.min_write_size
TooSmall(cloud) == Cardinality(cloud) < min_write_size

\* a writer that stores the cluster index as the label
WriteClustersIndexAsLabel(cleaned) ==
    [nclusters |-> Len(cleaned),
     clusters |-> [cidx \in 0..(Len(cleaned) - 1) |->
                      [label |-> cidx, cloud |-> cleaned[cidx + 1].points]]]

\* the event group: attribute nclusters and one cluster_<cidx> per cluster
WriteClusters(cleaned) ==
    [nclusters |-> Len(cleaned),
     clusters |-> [cidx \in 0..(Len(cleaned) - 1) |->
                      [label |-> cleaned[cidx + 1].label,
                       cloud |-> cleaned[cidx + 1].points]]]

Phase2Init ==
    /\ p2_pc = "loop"
    /\ p2_range \in {<<lo, hi>> \in (1..MaxIndex) \X (0..MaxIndex) :
                         hi >= lo - 1}
    /\ min_write_size \in 0..MaxWriteSize
    /\ p2_idx = p2_range[1]
    /\ p2_count = <<0, 0>>
    /\ cloud_group = <<>>
    /\ clusterized = {}
    /\ cluster_file = <<>>
    /\ SolveIdle
    /\ QueueIdle
    /\ CloudIdle

\* one iteration of the loop over range(min_event, max_event + 1)
Phase2Event ==
    /\ p2_pc = "loop"
    /\ p2_idx <= p2_range[2]
    /\ p2_count' = IF p2_count[1] > FlushVal(p2_range[2] - p2_range[1])
                   THEN <<1, p2_count[2] + 1>>
                   ELSE <<p2_count[1] + 1, p2_count[2]>>
    /\ \E cloud_data \in CloudLookups :
        /\ cloud_group' = (p2_idx :> cloud_data) @@ cloud_group
        /\ IF cloud_data.kind # "data" \/ TooSmall(cloud_data.points)
           THEN UNCHANGED <<clusterized, cluster_file>>
           ELSE LET clusters == clusterize(cloud_data.points)
                    joined == join_clusters(clusters)
                    cleaned == cleanup_clusters(joined)
                IN  /\ clusterized' = clusterized \cup {p2_idx}
                    /\ cluster_file' =
                           (p2_idx :> WriteClusters(cleaned)) @@ cluster_file
    /\ p2_idx' = p2_idx + 1
    /\ UNCHANGED <<p2_pc, p2_range, min_write_size>>
    /\ UNCHANGED <<queueVars, solveVars, cloudVars>>

\* the loop is exhausted
Phase2Finish ==
    /\ p2_pc = "loop"
    /\ p2_idx > p2_range[2]
    /\ p2_pc' = "done"
    /\ UNCHANGED <<p2_range, min_write_size, p2_idx, p2_count, cloud_group,
                   clusterized, cluster_file>>
    /\ UNCHANGED <<queueVars, solveVars, cloudVars>>

Phase2Next ==
    \/ Phase2Event
    \/ Phase2Finish

SpecPhase2 == Phase2Init /\ [][Phase2Next]_vars

(***************************************************************************)
(* Properties of phase_2                                                   *)
(***************************************************************************)
LargeEnough(i) ==
    /\ cloud_group[i].kind = "data"
    /\ Cardinality(cloud_group[i].points) >= min_write_size

\* C2: for every visited event index, the group event_<idx> exists and
\* clusterize was invoked if and only if cloud_<idx> exists with at least
\* min_write_size points; the other indices are skipped, and when the loop
\* ends every index of [min_event, max_event] has been visited.
C2_GroupIffCloudLargeEnough ==
    /\ DOMAIN cluster_file \subseteq DOMAIN cloud_group
    /\ clusterized \subseteq DOMAIN cloud_group
    /\ \A i \in DOMAIN cloud_group :
           /\ (i \in DOMAIN cluster_file) <=> LargeEnough(i)
           /\ (i \in clusterized) <=> LargeEnough(i)
    /\ DOMAIN cloud_group = p2_range[1]..(p2_idx - 1)
    /\ p2_pc = "done" => DOMAIN cloud_group = p2_range[1]..p2_range[2]

C2_Witness ==
    /\ p2_pc = "done"
    /\ min_write_size = MaxWriteSize
    /\ \E i, j \in DOMAIN cloud_group :
           /\ i < j
           /\ cloud_group[i].kind = "data"
           /\ Cardinality(cloud_group[i].points) = min_write_size - 1
           /\ i \notin DOMAIN cluster_file
           /\ Cardinality(cloud_group[j].points) = min_write_size
           /\ j \in DOMAIN cluster_file

\* C3: every event group holds exactly cleanup_clusters(join_clusters(
\* clusterize(cloud))): nclusters is the number of cluster_<i> subgroups,
\* their indices are 0..nclusters-1 in the order of the cleaned list, each
\* carries its cluster's label and points, and an event without surviving
\* clusters has nclusters = 0 and no subgroup.
C3_PersistedClustersArePipelineOutput ==
    \A e \in DOMAIN cluster_file :
        LET g == cluster_file[e]
            cleaned == cleanup_clusters(
                           join_clusters(clusterize(cloud_group[e].points)))
        IN  /\ g.nclusters = Len(cleaned)
            /\ DOMAIN g.clusters = 0..(g.nclusters - 1)
            /\ Cardinality(DOMAIN g.clusters) = g.nclusters
            /\ \A i \in DOMAIN g.clusters :
                   /\ g.clusters[i].label = cleaned[i + 1].label
                   /\ g.clusters[i].cloud = cleaned[i + 1].points

C3_Witness ==
    /\ p2_pc = "done"
    /\ \E e, f \in DOMAIN cluster_file :
           /\ cluster_file[e].nclusters = 0
           /\ DOMAIN cluster_file[e].clusters = {}
           /\ cluster_file[f].nclusters >= 1
           /\ cluster_file[f].clusters[0].label # 0

(***************************************************************************)
(* phase_pointcloud                                                        *)
(***************************************************************************)
\* the GET window in time buckets: an IC correction must stay below it
GetWindow == 512
\* frib_params.ic_multiplicity
ic_multiplicity == 1

NoPeak == [id |-> 0, amplitude |-> 0, integral |-> 0, centroid |-> 0]

Peak(p) ==
    [id |-> p, amplitude |-> 10 * p + 1, integral |-> 10 * p + 2,
     centroid |-> 10 * p + 3]

Peaks == {Peak(p) : p \in 1..MaxPeaks}

\* get_good_ic_peak: None, or a multiplicity and a peak
NoGoodIc == [mult |-> 0, peak |-> NoPeak]

GoodIcResults ==
    {NoGoodIc} \cup {[mult |-> m, peak |-> q] : m \in 1..MaxMult, q \in Peaks}

\* what the FRIB event of one index held, as far as the driver looked
NoFrib ==
    [frib |-> FALSE, good_ic |-> NoGoodIc, ic_mult |-> 0, ic_peak |-> NoPeak]

\* lines 152-155
DefaultAttrs ==
    [ic_amplitude |-> -1, ic_integral |-> -1, ic_centroid |-> -1,
     ic_multiplicity |-> -1]

\* attributes that take the integral from the amplitude of the peak
GoodIcAttrsMixed(good_ic) ==
    [ic_amplitude |-> good_ic.peak.amplitude,
     ic_integral |-> good_ic.peak.amplitude,
     ic_centroid |-> good_ic.peak.centroid,
     ic_multiplicity |-> good_ic.mult]

\* lines 188-193
GoodIcAttrs(good_ic) ==
    [ic_amplitude |-> good_ic.peak.amplitude,
     ic_integral |-> good_ic.peak.integral,
     ic_centroid |-> good_ic.peak.centroid,
     ic_multiplicity |-> good_ic.mult]

\* lines 227-231
TriggerAttrs(ic_mult, ic_peak) ==
    IF ic_mult <= ic_multiplicity /\ ic_peak # NoPeak
    THEN [ic_amplitude |-> ic_peak.amplitude,
          ic_integral |-> ic_peak.integral,
          ic_centroid |-> ic_peak.centroid,
          ic_multiplicity |-> ic_mult]
    ELSE DefaultAttrs

\* pc.calibrate_z_position(..., corrector) and (..., corrector, ic_cor)
Calibrate(with_ic, ic_cor) ==
    [corrector |-> corrector, with_ic |-> with_ic,
     ic_correction |-> IF with_ic THEN ic_cor ELSE 0]

\* the dataset cloud_<idx> after pc_dataset[:] = pc.cloud: its attributes,
\* the calibrations the copied cloud had received, what was read of the FRIB
\* event and what frib_event.correct_ic_time returned
Dataset(attrs, z_calls, read, ic_cor) ==
    [attrs |-> attrs, data |-> z_calls, read |-> read, ic_cor |-> ic_cor,
     creations |-> 1]

CloudInit ==
    /\ p1_pc = "open_trace"
    /\ p1_failure = "none"
    /\ trace_file = "unread"
    /\ p1_range = <<1, 0>>
    /\ corrector = "None"
    /\ correct_ic_time \in BOOLEAN
    /\ event_group = "unread"
    /\ frib_group = "unread"
    /\ frib_evt_group = "unread"
    /\ scaler_entry = "unread"
    /\ frib_scaler_group = "unset"
    /\ p1_idx = 0
    /\ p1_count = 0
    /\ get_data = <<>>
    /\ datasets = <<>>
    /\ scalers_processed = 0
    /\ SolveIdle
    /\ QueueIdle
    /\ Phase2Idle

H5Entries == {"group", "absent", "dataset"}

\* lines 70-89: the trace file, the event range and the corrector
OpenTrace ==
    /\ p1_pc = "open_trace"
    /\ \E exists \in BOOLEAN :
        IF ~exists
        THEN /\ trace_file' = "absent"
             /\ log' = log \cup {[level |-> "warn", reason |-> "no run"]}
             /\ p1_pc' = "returned"
             /\ UNCHANGED <<p1_range, corrector>>
        ELSE /\ trace_file' = "exists"
             /\ p1_range' \in {<<lo, hi>> \in (1..MaxIndex) \X (0..MaxIndex) :
                                   hi >= lo - 1}
             /\ corrector' \in {"None", "corrector"}
             /\ p1_pc' = "open_get"
             /\ log' = log
    /\ UNCHANGED <<p1_failure, correct_ic_time, event_group, frib_group,
                   frib_evt_group, scaler_entry, frib_scaler_group, p1_idx,
                   p1_count, get_data, datasets, scalers_processed>>
    /\ UNCHANGED <<sink, sent, solveVars, phase2Vars>>

\* parent[name] followed by the isinstance check: a missing name raises
\* KeyError, an entry that is not a group is logged and ends the phase
AfterOpen(entry, next, reason) ==
    /\ p1_pc' = CASE entry = "absent" -> "failed"
                  [] entry = "dataset" -> "returned"
                  [] OTHER -> next
    /\ p1_failure' = IF entry = "absent" THEN "KeyError" ELSE p1_failure
    /\ log' = IF entry = "dataset"
              THEN log \cup {[level |-> "error", reason |-> reason]}
              ELSE log

\* lines 92-98
OpenGet ==
    /\ p1_pc = "open_get"
    /\ \E entry \in H5Entries :
        /\ event_group' = entry
        /\ AfterOpen(entry, "open_frib", "no GET event group")
    /\ UNCHANGED <<trace_file, p1_range, corrector, correct_ic_time,
                   frib_group, frib_evt_group, scaler_entry,
                   frib_scaler_group, p1_idx, p1_count, get_data, datasets,
                   scalers_processed>>
    /\ UNCHANGED <<sink, sent, solveVars, phase2Vars>>

\* lines 100-105
OpenFrib ==
    /\ p1_pc = "open_frib"
    /\ \E entry \in H5Entries :
        /\ frib_group' = entry
        /\ AfterOpen(entry, "open_evt", "no FRIB group")
    /\ UNCHANGED <<trace_file, p1_range, corrector, correct_ic_time,
                   event_group, frib_evt_group, scaler_entry,
                   frib_scaler_group, p1_idx, p1_count, get_data, datasets,
                   scalers_processed>>
    /\ UNCHANGED <<sink, sent, solveVars, phase2Vars>>

\* lines 106-112
OpenEvt ==
    /\ p1_pc = "open_evt"
    /\ \E entry \in H5Entries :
        /\ frib_evt_group' = entry
        /\ AfterOpen(entry, "open_scaler", "no FRIB event data group")
    /\ UNCHANGED <<trace_file, p1_range, corrector, correct_ic_time,
                   event_group, frib_group, scaler_entry, frib_scaler_group,
                   p1_idx, p1_count, get_data, datasets, scalers_processed>>
    /\ UNCHANGED <<sink, sent, solveVars, phase2Vars>>

\* line 115: the test reads frib_group, not the entry it has just read
ScalerIsMissing(entry) == frib_group # "group"

\* lines 114-127: frib_group["scaler"] raises KeyError for a missing name
OpenScaler ==
    /\ p1_pc = "open_scaler"
    /\ \E entry \in H5Entries :
        /\ scaler_entry' = entry
        /\ IF entry = "absent"
           THEN /\ p1_pc' = "failed"
                /\ p1_failure' = "KeyError"
                /\ UNCHANGED <<frib_scaler_group, log, p1_idx>>
           ELSE /\ IF ScalerIsMissing(entry)
                   THEN /\ log' = log \cup {[level |-> "warn",
                                             reason |-> "no scalers"]}
                        /\ frib_scaler_group' = "None"
                   ELSE /\ log' = log
                        /\ frib_scaler_group' = entry
                /\ p1_idx' = p1_range[1]
                /\ p1_pc' = "loop"
                /\ p1_failure' = p1_failure
    /\ UNCHANGED <<trace_file, p1_range, corrector, correct_ic_time,
                   event_group, frib_group, frib_evt_group, p1_count,
                   get_data, datasets, scalers_processed>>
    /\ UNCHANGED <<sink, sent, solveVars, phase2Vars>>

\* the event body with the correction passed to every calibration of a good
\* IC peak, whatever its size
ProcessEventAlwaysCorrects(read, ic_cor) ==
    IF ~read.frib
    THEN Dataset(DefaultAttrs, <<Calibrate(FALSE, 0)>>, read, ic_cor)
    ELSE IF correct_ic_time
    THEN IF read.good_ic = NoGoodIc
         THEN Dataset(DefaultAttrs, <<Calibrate(FALSE, 0)>>, read, ic_cor)
         ELSE Dataset(GoodIcAttrs(read.good_ic),
                      <<Calibrate(TRUE, ic_cor)>>, read, ic_cor)
    ELSE Dataset(TriggerAttrs(read.ic_mult, read.ic_peak),
                 <<Calibrate(FALSE, 0)>>, read, ic_cor)

\* lines 142-233 for an index that has GET data: the dataset that results
\* from what the FRIB event holds
ProcessEvent(read, ic_cor) ==
    IF ~read.frib
    THEN Dataset(DefaultAttrs, <<Calibrate(FALSE, 0)>>, read, ic_cor)
    ELSE IF correct_ic_time
    THEN IF read.good_ic = NoGoodIc
         THEN Dataset(DefaultAttrs, <<Calibrate(FALSE, 0)>>, read, ic_cor)
         ELSE Dataset(GoodIcAttrs(read.good_ic),
                      <<Calibrate(ic_cor < GetWindow, ic_cor)>>, read, ic_cor)
    ELSE Dataset(TriggerAttrs(read.ic_mult, read.ic_peak),
                 <<Calibrate(FALSE, 0)>>, read, ic_cor)

\* what the driver can read of the FRIB event of one index
FribReads ==
    IF correct_ic_time
    THEN {NoFrib} \cup {[frib |-> TRUE, good_ic |-> g, ic_mult |-> 0,
                         ic_peak |-> NoPeak] : g \in GoodIcResults}
    ELSE {NoFrib} \cup {[frib |-> TRUE, good_ic |-> NoGoodIc, ic_mult |-> m,
                         ic_peak |-> q] :
                            m \in 1..MaxMult, q \in Peaks \cup {NoPeak}}

\* the values correct_ic_time can return: below the GET window or not
IcCorrections(read) ==
    IF read.frib /\ correct_ic_time /\ read.good_ic # NoGoodIc
    THEN {GetWindow - 1, GetWindow}
    ELSE {0}

\* one iteration of the loop over range(min_event, max_event + 1)
CloudEvent ==
    /\ p1_pc = "loop"
    /\ p1_idx <= p1_range[2]
    /\ LET put == p1_count > FlushVal(p1_range[2] - p1_range[1])
       IN  \E s \in (IF put THEN SinkOutcomes ELSE {sink}) :
            /\ sink' = s
            /\ IF put /\ s # "available"
               THEN /\ p1_pc' = AfterPut(s, "loop")
                    /\ p1_failure' = IF s = "closed" THEN "BrokenPipeError"
                                                     ELSE p1_failure
                    /\ UNCHANGED <<sent, p1_count, p1_idx, get_data, datasets>>
               ELSE /\ sent' = IF put
                               THEN Append(sent, StatusMessage("CLOUD", 1))
                               ELSE sent
                    /\ p1_count' = (IF put THEN 0 ELSE p1_count) + 1
                    /\ \E has_data \in BOOLEAN :
                        /\ get_data' = (p1_idx :> has_data) @@ get_data
                        /\ IF ~has_data
                           THEN datasets' = datasets
                           ELSE \E read \in FribReads :
                                \E ic_cor \in IcCorrections(read) :
                                  datasets' =
                                      (p1_idx :> ProcessEvent(read, ic_cor))
                                          @@ datasets
                    /\ p1_idx' = p1_idx + 1
                    /\ UNCHANGED <<p1_pc, p1_failure>>
    /\ UNCHANGED <<log, trace_file, p1_range, corrector, correct_ic_time,
                   event_group, frib_group, frib_evt_group, scaler_entry,
                   frib_scaler_group, scalers_processed>>
    /\ UNCHANGED <<solveVars, phase2Vars>>

\* lines 236-240
CloudFinish ==
    /\ p1_pc = "loop"
    /\ p1_idx > p1_range[2]
    /\ scalers_processed' = IF frib_scaler_group # "None"
                            THEN scalers_processed + 1
                            ELSE scalers_processed
    /\ log' = log \cup {[level |-> "info", reason |-> "complete"]}
    /\ p1_pc' = "done"
    /\ UNCHANGED <<p1_failure, trace_file, p1_range, corrector,
                   correct_ic_time, event_group, frib_group, frib_evt_group,
                   scaler_entry, frib_scaler_group, p1_idx, p1_count,
                   get_data, datasets>>
    /\ UNCHANGED <<sink, sent, solveVars, phase2Vars>>

CloudNext ==
    \/ OpenTrace
    \/ OpenGet
    \/ OpenFrib
    \/ OpenEvt
    \/ OpenScaler
    \/ CloudEvent
    \/ CloudFinish

SpecCloud == CloudInit /\ [][CloudNext]_vars

(***************************************************************************)
(* Properties of phase_pointcloud                                          *)
(***************************************************************************)
\* C9 (as claimed): when the scaler group does not exist in the trace file a
\* warning is emitted, the scaler handle is absent, the phase does not fail,
\* and at its end every event of the range has been visited and
\* process_scalers has not been called.
C9_MissingScalerDegradesGracefully ==
    scaler_entry = "absent" =>
        /\ p1_pc \in {"loop", "done", "blocked"}
        /\ [level |-> "warn", reason |-> "no scalers"] \in log
        /\ frib_scaler_group = "None"
        /\ scalers_processed = 0
        /\ p1_pc = "done" => DOMAIN get_data = p1_range[1]..p1_range[2]

\* C10: the four ion-chamber attributes of every dataset are either all -1
\* or the amplitude, integral and centroid of the one peak the driver
\* accepted together with its multiplicity; they are all -1 when the FRIB
\* event is missing, when no good IC peak is found (correction on), and when
\* the multiplicity or trigger condition fails (correction off).
C10_IcAttributesAllOrNothing ==
    \A e \in DOMAIN datasets :
        LET a == datasets[e].attrs
            r == datasets[e].read
            accepted == IF correct_ic_time THEN r.good_ic.peak ELSE r.ic_peak
            mult == IF correct_ic_time THEN r.good_ic.mult ELSE r.ic_mult
            sentinel == /\ a.ic_amplitude = -1
                        /\ a.ic_integral = -1
                        /\ a.ic_centroid = -1
                        /\ a.ic_multiplicity = -1
            rejected == \/ ~r.frib
                        \/ correct_ic_time /\ r.good_ic = NoGoodIc
                        \/ ~correct_ic_time /\ r.ic_mult > ic_multiplicity
                        \/ ~correct_ic_time /\ r.ic_peak = NoPeak
        IN  /\ rejected => sentinel
            /\ \/ sentinel
               \/ /\ accepted \in Peaks
                  /\ a.ic_amplitude = accepted.amplitude
                  /\ a.ic_integral = accepted.integral
                  /\ a.ic_centroid = accepted.centroid
                  /\ a.ic_multiplicity = mult

C10_Witness ==
    /\ p1_pc = "done"
    /\ correct_ic_time
    /\ \E e, f \in DOMAIN datasets :
           /\ datasets[e].read.frib
           /\ datasets[e].read.good_ic = NoGoodIc
           /\ datasets[f].read.good_ic.peak = Peak(2)
           /\ datasets[f].attrs.ic_integral = Peak(2).integral

\* C11: every visited event index has a dataset cloud_<index> exactly when it
\* has GET trace data; that dataset was created once, and the cloud copied
\* into it had received exactly one calibrate_z_position call, made with the
\* corrector of the run; the IC time correction was passed to that call
\* exactly when correct_ic_time is on, the FRIB event exists, a good IC peak
\* was found and the correction is below the 512 time buckets of the GET
\* window, and then it is the value correct_ic_time returned.
C11_OneDatasetCalibratedOnce ==
    \A e \in DOMAIN get_data :
        /\ get_data[e] <=> e \in DOMAIN datasets
        /\ e \in DOMAIN datasets =>
               LET d == datasets[e]
                   corrected == /\ correct_ic_time
                                /\ d.read.frib
                                /\ d.read.good_ic # NoGoodIc
                                /\ d.ic_cor < GetWindow
               IN  /\ d.creations = 1
                   /\ Len(d.data) = 1
                   /\ d.data[1].corrector = corrector
                   /\ d.data[1].with_ic <=> corrected
                   /\ d.data[1].with_ic => d.data[1].ic_correction = d.ic_cor

C11_Witness ==
    /\ p1_pc = "done"
    /\ correct_ic_time
    /\ \E e, f \in DOMAIN datasets :
           /\ datasets[e].read.good_ic # NoGoodIc
           /\ datasets[e].ic_cor = GetWindow
           /\ ~datasets[e].data[1].with_ic
           /\ datasets[f].read.good_ic # NoGoodIc
           /\ datasets[f].ic_cor = GetWindow - 1
           /\ datasets[f].data[1].with_ic

(***************************************************************************)
(* Properties of phase_solve / phase_4_interp                              *)
(***************************************************************************)
RowFailures == {"KeyError event", "KeyError cluster"}

Stopped == pc \in {"returned", "failed", "blocked", "done"}

\* C1 (as claimed): a gated row whose event group or cluster entry is absent
\* from the cluster file never aborts the run: the driver goes on with the
\* remaining rows and writes the result table.
C1_RowFailureNeverAborts ==
    failure \in RowFailures => pc \in {"loop", "done"}

\* C4 (as claimed): a run without gated candidates writes a result table
\* with zero rows and logs the condition at warning level.
C4_EmptyGateWritesEmptyTable ==
    (skip = "no events within PID" /\ pc = "returned") =>
        /\ result_file = <<>>
        /\ [level |-> "warn", reason |-> "no events within PID"] \in log

\* C4 (amended): a run without gated candidates is skipped: the interpolator
\* is not created, the solver is not invoked, no result table is written and
\* nothing is logged at error level; when the driver returns, its last
\* status message is a WAIT message and exactly phase_solve has logged the
\* condition at warning level.
C4_EmptyGateSkipsRun ==
    skip = "no events within PID" =>
        /\ estimates_gated = <<>>
        /\ interpLoads = 0
        /\ calls = <<>>
        /\ result_file = NoFile
        /\ \A l \in log : l.level = "warn"
        /\ pc = "returned" =>
            /\ sent # <<>>
            /\ sent[Len(sent)].phase = "WAIT"
            /\ (variant = "phase_solve") <=>
                   ([level |-> "warn", reason |-> "no events within PID"]
                        \in log)

C4_Witness ==
    /\ skip = "no events within PID"
    /\ pc = "returned"
    /\ variant = "phase_solve"
    /\ estimate_df # {}

PrerequisiteMissing ==
    \/ pid = "none"
    \/ target = "other"
    \/ paths \in {"no cluster file", "no estimate file"}
    \/ cluster_group \in {"absent", "dataset"}

\* C5 (as claimed, for phase_solve with a sink that takes its messages): when
\* a run-level prerequisite is missing the interpolator is not created, the
\* solver is never invoked, no result file is written, and once the driver
\* has stopped the skip has been logged with a reason.
C5_MissingPrerequisiteSkipsWithReason ==
    (PrerequisiteMissing /\ variant = "phase_solve" /\ sink # "stalled"
         /\ sink # "closed") =>
        /\ interpLoads = 0
        /\ calls = <<>>
        /\ result_file = NoFile
        /\ Stopped => \E l \in log : l.level \in {"warn", "error"}

\* C6: every event is submitted to the solver at most once, and the cluster,
\* the cluster index and the Guess of a call come from one estimate row that
\* passes the gate and has the largest polar angle among the gated rows of
\* its event.
C6_PairingPreserved ==
    /\ \A i, j \in 1..Len(calls) :
           i # j => calls[i].cluster.event # calls[j].cluster.event
    /\ \A i \in 1..Len(calls) :
           \E r \in Filtered(estimate_df) :
               /\ calls[i].cluster.event = r.event
               /\ calls[i].cidx = r.cluster_index
               /\ calls[i].cluster.label = StoredLabel(r.event, r.cluster_index)
               /\ calls[i].guess = Guess(r)
               /\ \A q \in Filtered(estimate_df) :
                      q.event = r.event => q.polar <= r.polar

C6_Witness ==
    /\ variant = "phase_solve"
    /\ Len(calls) >= 2
    /\ \E r, q \in Filtered(estimate_df) :
           /\ r.event = q.event
           /\ r.polar < q.polar
           /\ r.cluster_index # q.cluster_index
           /\ \E i \in 1..Len(calls) : calls[i].cluster.event = r.event

\* C7 (as claimed): a put on the progress queue never blocks and never fails
\* the driver, whatever the condition of the sink.
C7_PutNeverBlocksOrFails ==
    /\ pc # "blocked"
    /\ failure # "BrokenPipeError"

\* C8: the interpolator is created at most once, every solver call receives
\* that one interpolator object, created before the call, and a failure to
\* create it ends the phase before any fit and without a result table.
C8_InterpolatorLoadedOnceBeforeFits ==
    /\ interpLoads <= 1
    /\ \A i \in 1..Len(calls) :
           /\ interpLoads = 1
           /\ interpolator # 0
           /\ calls[i].interpolator = interpolator
    /\ failure = "interpolator" =>
           /\ pc = "failed"
           /\ calls = <<>>
           /\ results = <<>>
           /\ result_file = NoFile

C8_Witness ==
    /\ Len(calls) >= 2
    /\ interpLoads = 1
    /\ pc = "done"

\* the progress values of the messages of one phase, added up
RECURSIVE ProgressSum(_, _)
ProgressSum(msgs, phase) ==
    IF msgs = <<>>
    THEN 0
    ELSE (IF Head(msgs).phase = phase THEN Head(msgs).progress ELSE 0)
             + ProgressSum(Tail(msgs), phase)

\* C12 (as claimed): over one run of phase_solve the progress values of all
\* SOLVE messages sent so far add up to at most 100, for every number of gated
\* events, fewer than 100 included.
C12_ProgressAtMost100 ==
    variant = "phase_solve" => ProgressSum(sent, "SOLVE") <= 100

====
